---- MODULE Spec2Model ----
(***************************************************************************)
(* A small-step model of the recursive-descent calculator of src/main.rs:  *)
(* the Calculator cursor (src_chars, current_index, current_token,         *)
(* number_val), the lexer get_token with its loops unrolled into steps,    *)
(* the grammar functions eval_expr / eval_add_sub_expr /                   *)
(* eval_mul_div_expr / eval_primary_expr as frames of an explicit call     *)
(* stack, and the driver main.                                             *)
(*                                                                         *)
(* Characters are one-character strings, the input is a sequence of them.  *)
(* i32 is modelled as a two's-complement integer of IntBits bits.  An      *)
(* arithmetic overflow panics in a build with overflow checks and wraps in *)
(* a build without them; overflow_checks is fixed per run.                 *)
(***************************************************************************)
EXTENDS Integers, Sequences, FiniteSets, TLC

\* ------------------------------------------------------------------ bounds

\* Width of the modelled signed integer (i32 in the source).
IntBits == 6
\* Every input line over Alphabet up to this length is explored.
MaxLen == 3
\* Every input line over CoreAlphabet up to this length is explored.
MaxCoreLen == 5
\* Depth of the host call stack (frames); no run of the model comes near it.
MaxStack == 64

\* ------------------------------------------------------------- integers

RECURSIVE Pow2(_)
Pow2(n) == IF n = 0 THEN 1 ELSE 2 * Pow2(n - 1)

IntMod == Pow2(IntBits)
IntMax == Pow2(IntBits - 1) - 1
IntMin == -Pow2(IntBits - 1)

InRange(v) == IntMin <= v /\ v <= IntMax

\* Two's-complement wrap of a mathematical integer into the machine width.
Wrap(v) == ((v - IntMin) % IntMod) + IntMin

Abs(v) == IF v < 0 THEN -v ELSE v

\* ----------------------------------------------------------- characters

DigitChars == <<"0", "1", "2", "3", "4", "5", "6", "7", "8", "9">>

\* char::is_digit(10)
is_digit(c) == \E i \in 1..10 : DigitChars[i] = c

\* char::to_digit(10).unwrap()
to_digit(c) == (CHOOSE i \in 1..10 : DigitChars[i] = c) - 1

\* A lexer that takes the ASCII space for the only blank.
is_whitespace_SpaceOnly(c) == c = " "

\* char::is_whitespace, on the blanks of the model's alphabet
is_whitespace(c) == c \in {" ", "\t"}

\* str::trim of the line read by main
RECURSIVE trim_start(_)
trim_start(s) ==
    IF s # <<>> /\ is_whitespace(Head(s)) THEN trim_start(Tail(s)) ELSE s

RECURSIVE trim_end(_)
trim_end(s) ==
    IF s # <<>> /\ is_whitespace(s[Len(s)])
    THEN trim_end(SubSeq(s, 1, Len(s) - 1))
    ELSE s

trim(s) == trim_end(trim_start(s))

\* ---------------------------------------------------------------- inputs

Alphabet == {"0", "1", "2", "+", "-", "*", "/", "(", ")", " ", "x"}
CoreAlphabet == {"1", "-", "(", ")", "/"}

Strings(A, n) == UNION {[1..k -> A] : k \in 0..n}

\* The decimal digits of a natural number.
RECURSIVE Decimal(_)
Decimal(n) ==
    IF n < 10 THEN <<DigitChars[n + 1]>>
    ELSE Append(Decimal(n \div 10), DigitChars[(n % 10) + 1])

\* "(-MAX-1)/-1": the most negative integer divided by minus one.
MinDivLine ==
    <<"(", "-">> \o Decimal(IntMax) \o <<"-", "1", ")", "/", "-", "1">>

\* "-(-MAX-1)": the negation of the most negative integer.
MinNegLine == <<"-", "(", "-">> \o Decimal(IntMax) \o <<"-", "1", ")">>

Examples == {
    <<"1", "-", "2", "-", "3">>,
    <<"8", "/", "4", "/", "2">>,
    <<"2", "+", "3", "*", "4">>,
    <<"(", "2", "+", "3", ")", "*", "4">>,
    <<"-", "5", "+", "3">>,
    <<"-", "(", "2", "+", "3", ")">>,
    <<" ", " ", "1", " ", "+", " ", " ", "2", " ">>,
    <<"1", " ", "+", "\t", "2">>,
    <<"5", "/", "0">>,
    <<"7", "/", "-", "2">>,
    <<"-", "7", "/", "2">>,
    <<"5", "/", "(", "1", "-", "1", ")", "+", "x">>,
    <<"(", "1", "+", "2">>,
    <<"(", "(", "1", "+", "2">>,
    <<"(", "(", "1", "+", "2", ")">>,
    <<"2", "*", "(", "3", "+", "4">>,
    <<"-", "(", "3">>,
    <<"0", "0", "7">>,
    <<"1", "2", " ", "3", "4">>,
    <<"-", " ", "-", " ", "5">>,
    <<"-", "(", "-", "5", ")">>,
    <<"(", "-", "-", "5">>,
    <<"1", "/", "0", "-", "-", "1">>,
    <<"(", "(", "(", "1", ")", ")", ")">>,
    <<"-", "(", "-", "(", "-", "(", "1", ")", ")", ")">>,
    <<"1", "+", "2", ")", "*", "3">>,
    <<"6", "*", "6">>,
    <<"3", "1", "+", "1">>,
    MinDivLine,
    MinNegLine
}

Lines == Strings(Alphabet, MaxLen) \cup Strings(CoreAlphabet, MaxCoreLen) \cup Examples

\* ----------------------------------------------------------------- state

VARIABLES
    src_chars,       \* Calculator.src_chars
    current_index,   \* Calculator.current_index (0-based)
    current_token,   \* Calculator.current_token
    number_val,      \* Calculator.number_val
    overflow_checks, \* the build: TRUE panics on overflow, FALSE wraps
    stack,           \* the host call stack, innermost frame last
    ret,             \* the value the last returning function returned
    status,          \* "running", "result", or the error the process exited on
    output,          \* the integer printed by main
    run,             \* 1, or 2 for the re-run on a re-spaced line
    first            \* the outcome of run 1, once run 2 has begun

vars == <<src_chars, current_index, current_token, number_val, overflow_checks,
          stack, ret, status, output, run, first>>

TokenType == {"NUMBER", "ADD", "SUB", "MUL", "DIV", "LEFTPAREN", "RIGHTPAREN",
              "END", "UNKNOWN"}

\* A frame: the function, its position, and its locals.  entry is the index
\* at which the call began (a get_token frame's history, read by no action).
Frame(fn, pc) ==
    [fn |-> fn, pc |-> pc, result |-> 0, op_token |-> "UNKNOWN",
     temp_val |-> 0, start_index |-> 0, entry |-> current_index]

Top == stack[Len(stack)]
At(fn, pc) == status = "running" /\ Top.fn = fn /\ Top.pc = pc

\* The frame on top replaced by f.
SetTop(f) == [stack EXCEPT ![Len(stack)] = f]

\* A call: the caller moves to pc, the callee's frame is pushed.
Call(pc, callee) ==
    /\ Len(stack) < MaxStack
    /\ stack' = Append(SetTop([Top EXCEPT !.pc = pc]), callee)

\* A return of value v to the caller.
Return(v) ==
    /\ stack' = SubSeq(stack, 1, Len(stack) - 1)
    /\ ret' = v

\* Calculator::error: the message is printed and the process exits.
Error(kind) ==
    /\ status' = kind
    /\ UNCHANGED <<src_chars, current_index, current_token, number_val,
                   overflow_checks, stack, ret, output, run, first>>

\* Calculator::new after main has read and trimmed the line.
new(line) ==
    /\ src_chars = trim(line)
    /\ current_index = 0
    /\ current_token = "UNKNOWN"
    /\ number_val = 0

Init ==
    /\ \E line \in Lines : new(line)
    /\ overflow_checks \in BOOLEAN
    /\ stack = <<[fn |-> "main", pc |-> "m_get_token", result |-> 0,
                  op_token |-> "UNKNOWN", temp_val |-> 0, start_index |-> 0,
                  entry |-> 0]>>
    /\ ret = 0
    /\ status = "running"
    /\ output = 0
    /\ run = 1
    /\ first = [status |-> "running", output |-> 0, src |-> <<>>]

\* ------------------------------------------------------------- get_token

HasChar == current_index < Len(src_chars)
CurChar == src_chars[current_index + 1]

\* The token of a single-character lexeme.
OperatorToken(c) ==
    CASE c = "+" -> "ADD"
      [] c = "-" -> "SUB"
      [] c = "*" -> "MUL"
      [] c = "/" -> "DIV"
      [] c = "(" -> "LEFTPAREN"
      [] c = ")" -> "RIGHTPAREN"
      [] OTHER -> "UNKNOWN"

\* A lexer that goes on from the previous number_val.
NumberStart_Keep(old) == old

\* The value number_val is given before the digits are accumulated.
NumberStart(old) == 0

\* A reset to the start of the input.
ResetIndex_Zero(start) == 0

\* The index the number branch goes back to once the digits are read.
ResetIndex(start) == start

\* A lexer that leaves the index on the single-character token.
AdvanceOperator_Stuck(i) == i

\* The index after a single-character token at index i.
AdvanceOperator(i) == i + 1

\* The index after one more digit of the lexeme at index i.
AdvanceDigit(i) == i + 1

\* One iteration of the whitespace loop.
GetToken_SkipWhitespace ==
    /\ At("get_token", "gt_start")
    /\ HasChar /\ is_whitespace(CurChar)
    /\ current_index' = current_index + 1
    /\ UNCHANGED <<src_chars, current_token, number_val, overflow_checks,
                   stack, ret, status, output, run, first>>

\* End of input after the whitespace.
GetToken_End ==
    /\ At("get_token", "gt_start")
    /\ ~HasChar
    /\ current_token' = "END"
    /\ Return(ret)
    /\ UNCHANGED <<src_chars, current_index, number_val, overflow_checks,
                   status, output, run, first>>

\* The match on the current character, up to the digit loop.
GetToken_Classify ==
    /\ At("get_token", "gt_start")
    /\ HasChar /\ ~is_whitespace(CurChar)
    /\ IF OperatorToken(CurChar) # "UNKNOWN"
       THEN /\ current_token' = OperatorToken(CurChar)
            /\ stack' = SetTop([Top EXCEPT !.pc = "gt_advance"])
            /\ UNCHANGED <<number_val, status>>
       ELSE IF is_digit(CurChar)
       THEN /\ number_val' = NumberStart(number_val)
            /\ stack' = SetTop([Top EXCEPT !.pc = "gt_digits",
                                           !.start_index = current_index])
            /\ UNCHANGED <<current_token, status>>
       ELSE /\ status' = "unknown_token"
            /\ UNCHANGED <<current_token, number_val, stack>>
    /\ UNCHANGED <<src_chars, current_index, overflow_checks, ret, output,
                   run, first>>

\* One iteration of the digit loop: number_val = number_val * 10 + digit.
GetToken_ScanDigit ==
    /\ At("get_token", "gt_digits")
    /\ HasChar /\ is_digit(CurChar)
    /\ LET v == number_val * 10 + to_digit(CurChar) IN
       IF overflow_checks /\ ~InRange(v)
       THEN /\ status' = "overflow_panic"
            /\ UNCHANGED <<number_val, current_index>>
       ELSE /\ number_val' = Wrap(v)
            /\ current_index' = current_index + 1
            /\ UNCHANGED status
    /\ UNCHANGED <<src_chars, current_token, overflow_checks, stack, ret,
                   output, run, first>>

\* The digit loop is over: the index goes back to start_index and the match
\* yields NUMBER.
GetToken_ResetIndex ==
    /\ At("get_token", "gt_digits")
    /\ ~(HasChar /\ is_digit(CurChar))
    /\ current_index' = ResetIndex(Top.start_index)
    /\ current_token' = "NUMBER"
    /\ stack' = SetTop([Top EXCEPT !.pc = "gt_advance"])
    /\ UNCHANGED <<src_chars, number_val, overflow_checks, ret, status,
                   output, run, first>>

\* The index moves past a single-character token.
GetToken_AdvanceOperator ==
    /\ At("get_token", "gt_advance")
    /\ current_token # "NUMBER"
    /\ current_index' = AdvanceOperator(current_index)
    /\ Return(ret)
    /\ UNCHANGED <<src_chars, current_token, number_val, overflow_checks,
                   status, output, run, first>>

\* One iteration of the loop that moves the index to the end of the number.
GetToken_AdvanceNumber ==
    /\ At("get_token", "gt_advance")
    /\ current_token = "NUMBER"
    /\ HasChar /\ is_digit(CurChar)
    /\ current_index' = AdvanceDigit(current_index)
    /\ UNCHANGED <<src_chars, current_token, number_val, overflow_checks,
                   stack, ret, status, output, run, first>>

\* The index is at the end of the number: get_token returns.
GetToken_ReturnNumber ==
    /\ At("get_token", "gt_advance")
    /\ current_token = "NUMBER"
    /\ ~(HasChar /\ is_digit(CurChar))
    /\ Return(ret)
    /\ UNCHANGED <<src_chars, current_index, current_token, number_val,
                   overflow_checks, status, output, run, first>>

get_token ==
    \/ GetToken_SkipWhitespace
    \/ GetToken_End
    \/ GetToken_Classify
    \/ GetToken_ScanDigit
    \/ GetToken_ResetIndex
    \/ GetToken_AdvanceOperator
    \/ GetToken_AdvanceNumber
    \/ GetToken_ReturnNumber

\* ------------------------------------------------------------------ main

\* A driver that prints the result whatever token is left.
MainAccepts_Any(tok) == TRUE

\* The driver's test on the token left after eval_expr.
MainAccepts(tok) == tok = "END"

\* calculator.get_token(): the first token.
Main_GetToken ==
    /\ At("main", "m_get_token")
    /\ Call("m_eval", Frame("get_token", "gt_start"))
    /\ UNCHANGED <<src_chars, current_index, current_token, number_val,
                   overflow_checks, ret, status, output, run, first>>

\* let expr_val = calculator.eval_expr()
Main_EvalExpr ==
    /\ At("main", "m_eval")
    /\ Call("m_check", Frame("eval_expr", "e_call"))
    /\ UNCHANGED <<src_chars, current_index, current_token, number_val,
                   overflow_checks, ret, status, output, run, first>>

\* The END test, then the result is printed.
Main_Check ==
    /\ At("main", "m_check")
    /\ IF MainAccepts(current_token)
       THEN /\ status' = "result"
            /\ output' = ret
       ELSE /\ status' = "trailing_characters"
            /\ UNCHANGED output
    /\ UNCHANGED <<src_chars, current_index, current_token, number_val,
                   overflow_checks, stack, ret, run, first>>

main == Main_GetToken \/ Main_EvalExpr \/ Main_Check

\* -------------------------------------------------------------- eval_expr

\* self.eval_add_sub_expr()
EvalExpr_Call ==
    /\ At("eval_expr", "e_call")
    /\ Call("e_ret", Frame("eval_add_sub_expr", "as_first"))
    /\ UNCHANGED <<src_chars, current_index, current_token, number_val,
                   overflow_checks, ret, status, output, run, first>>

\* eval_expr returns what eval_add_sub_expr returned.
EvalExpr_Return ==
    /\ At("eval_expr", "e_ret")
    /\ Return(ret)
    /\ UNCHANGED <<src_chars, current_index, current_token, number_val,
                   overflow_checks, status, output, run, first>>

eval_expr == EvalExpr_Call \/ EvalExpr_Return

\* ------------------------------------------------------ eval_add_sub_expr

\* A fold that subtracts the wrong way round.
FoldAddSub_Swapped(op, result, temp_val) ==
    IF op = "ADD" THEN result + temp_val ELSE temp_val - result

\* result += temp_val, result -= temp_val (before the machine width applies)
FoldAddSub(op, result, temp_val) ==
    IF op = "ADD" THEN result + temp_val ELSE result - temp_val

\* let mut result = self.eval_mul_div_expr(): the call
AddSub_First ==
    /\ At("eval_add_sub_expr", "as_first")
    /\ Call("as_init", Frame("eval_mul_div_expr", "md_first"))
    /\ UNCHANGED <<src_chars, current_index, current_token, number_val,
                   overflow_checks, ret, status, output, run, first>>

\* let mut result = self.eval_mul_div_expr(): the assignment
AddSub_Init ==
    /\ At("eval_add_sub_expr", "as_init")
    /\ stack' = SetTop([Top EXCEPT !.result = ret, !.pc = "as_loop"])
    /\ UNCHANGED <<src_chars, current_index, current_token, number_val,
                   overflow_checks, ret, status, output, run, first>>

\* The loop test holds: the operator is recorded and consumed.
AddSub_Operator ==
    /\ At("eval_add_sub_expr", "as_loop")
    /\ current_token \in {"ADD", "SUB"}
    /\ Len(stack) < MaxStack
    /\ stack' = Append(SetTop([Top EXCEPT !.op_token = current_token,
                                          !.pc = "as_rhs"]),
                       Frame("get_token", "gt_start"))
    /\ UNCHANGED <<src_chars, current_index, current_token, number_val,
                   overflow_checks, ret, status, output, run, first>>

\* let temp_val = self.eval_mul_div_expr(): the call
AddSub_Rhs ==
    /\ At("eval_add_sub_expr", "as_rhs")
    /\ Call("as_fold", Frame("eval_mul_div_expr", "md_first"))
    /\ UNCHANGED <<src_chars, current_index, current_token, number_val,
                   overflow_checks, ret, status, output, run, first>>

\* The match on op_token folds temp_val into result.
AddSub_Fold ==
    /\ At("eval_add_sub_expr", "as_fold")
    /\ LET v == FoldAddSub(Top.op_token, Top.result, ret) IN
       IF overflow_checks /\ ~InRange(v)
       THEN /\ status' = "overflow_panic"
            /\ UNCHANGED stack
       ELSE /\ stack' = SetTop([Top EXCEPT !.result = Wrap(v),
                                           !.temp_val = ret,
                                           !.pc = "as_loop"])
            /\ UNCHANGED status
    /\ UNCHANGED <<src_chars, current_index, current_token, number_val,
                   overflow_checks, ret, output, run, first>>

\* The loop test fails: result is returned.
AddSub_Return ==
    /\ At("eval_add_sub_expr", "as_loop")
    /\ current_token \notin {"ADD", "SUB"}
    /\ Return(Top.result)
    /\ UNCHANGED <<src_chars, current_index, current_token, number_val,
                   overflow_checks, status, output, run, first>>

eval_add_sub_expr ==
    \/ AddSub_First
    \/ AddSub_Init
    \/ AddSub_Operator
    \/ AddSub_Rhs
    \/ AddSub_Fold
    \/ AddSub_Return

\* ------------------------------------------------------ eval_mul_div_expr

\* An evaluator without the zero test.
IsZeroDivisor_Never(temp_val) == FALSE

\* if temp_val == 0
IsZeroDivisor(temp_val) == temp_val = 0

\* result * temp_val (before the machine width applies)
FoldMul(result, temp_val) == result * temp_val

\* i32 division: the quotient rounded toward zero.
FoldDiv(result, temp_val) ==
    IF (result < 0) = (temp_val < 0)
    THEN Abs(result) \div Abs(temp_val)
    ELSE -(Abs(result) \div Abs(temp_val))

\* let mut result = self.eval_primary_expr(): the call
MulDiv_First ==
    /\ At("eval_mul_div_expr", "md_first")
    /\ Call("md_init", Frame("eval_primary_expr", "p_start"))
    /\ UNCHANGED <<src_chars, current_index, current_token, number_val,
                   overflow_checks, ret, status, output, run, first>>

\* let mut result = self.eval_primary_expr(): the assignment
MulDiv_Init ==
    /\ At("eval_mul_div_expr", "md_init")
    /\ stack' = SetTop([Top EXCEPT !.result = ret, !.pc = "md_loop"])
    /\ UNCHANGED <<src_chars, current_index, current_token, number_val,
                   overflow_checks, ret, status, output, run, first>>

\* The loop test holds: the operator is recorded and consumed.
MulDiv_Operator ==
    /\ At("eval_mul_div_expr", "md_loop")
    /\ current_token \in {"MUL", "DIV"}
    /\ Len(stack) < MaxStack
    /\ stack' = Append(SetTop([Top EXCEPT !.op_token = current_token,
                                          !.pc = "md_rhs"]),
                       Frame("get_token", "gt_start"))
    /\ UNCHANGED <<src_chars, current_index, current_token, number_val,
                   overflow_checks, ret, status, output, run, first>>

\* let temp_val = self.eval_primary_expr(): the call
MulDiv_Rhs ==
    /\ At("eval_mul_div_expr", "md_rhs")
    /\ Call("md_fold", Frame("eval_primary_expr", "p_start"))
    /\ UNCHANGED <<src_chars, current_index, current_token, number_val,
                   overflow_checks, ret, status, output, run, first>>

\* The match on op_token: MUL multiplies.
MulDiv_Multiply ==
    /\ At("eval_mul_div_expr", "md_fold")
    /\ Top.op_token = "MUL"
    /\ LET v == FoldMul(Top.result, ret) IN
       IF overflow_checks /\ ~InRange(v)
       THEN /\ status' = "overflow_panic"
            /\ UNCHANGED stack
       ELSE /\ stack' = SetTop([Top EXCEPT !.result = Wrap(v),
                                           !.temp_val = ret,
                                           !.pc = "md_loop"])
            /\ UNCHANGED status
    /\ UNCHANGED <<src_chars, current_index, current_token, number_val,
                   overflow_checks, ret, output, run, first>>

\* The match on op_token: DIV tests the divisor before it divides.
MulDiv_ZeroCheck ==
    /\ At("eval_mul_div_expr", "md_fold")
    /\ Top.op_token = "DIV"
    /\ IF IsZeroDivisor(ret)
       THEN /\ status' = "division_by_zero"
            /\ UNCHANGED stack
       ELSE /\ stack' = SetTop([Top EXCEPT !.temp_val = ret, !.pc = "md_div"])
            /\ UNCHANGED status
    /\ UNCHANGED <<src_chars, current_index, current_token, number_val,
                   overflow_checks, ret, output, run, first>>

\* result /= temp_val.  i32 division panics on a zero divisor and on
\* MIN / -1, whatever the build.
MulDiv_Divide ==
    /\ At("eval_mul_div_expr", "md_div")
    /\ IF Top.temp_val = 0
       THEN /\ status' = "divide_by_zero_panic"
            /\ UNCHANGED stack
       ELSE IF ~InRange(FoldDiv(Top.result, Top.temp_val))
       THEN /\ status' = "divide_overflow_panic"
            /\ UNCHANGED stack
       ELSE /\ stack' = SetTop([Top EXCEPT
                                  !.result = FoldDiv(Top.result, Top.temp_val),
                                  !.pc = "md_loop"])
            /\ UNCHANGED status
    /\ UNCHANGED <<src_chars, current_index, current_token, number_val,
                   overflow_checks, ret, output, run, first>>

\* The loop test fails: result is returned.
MulDiv_Return ==
    /\ At("eval_mul_div_expr", "md_loop")
    /\ current_token \notin {"MUL", "DIV"}
    /\ Return(Top.result)
    /\ UNCHANGED <<src_chars, current_index, current_token, number_val,
                   overflow_checks, status, output, run, first>>

eval_mul_div_expr ==
    \/ MulDiv_First
    \/ MulDiv_Init
    \/ MulDiv_Operator
    \/ MulDiv_Rhs
    \/ MulDiv_Multiply
    \/ MulDiv_ZeroCheck
    \/ MulDiv_Divide
    \/ MulDiv_Return

\* ------------------------------------------------------ eval_primary_expr

\* A unary minus applied to any primary that does not start with a number.
UnaryRecurses_AnyPrimary(tok) == tok \in {"LEFTPAREN", "SUB"}

\* The token after a unary minus that makes eval_primary_expr call itself.
UnaryRecurses(tok) == tok = "LEFTPAREN"

\* An evaluator that takes any token for the closing parenthesis.
ParenClosed_Any(tok) == TRUE

\* The test on the token after the parenthesised expression.
ParenClosed(tok) == tok = "RIGHTPAREN"

\* NUMBER: the value is taken, the number consumed.
Primary_Number ==
    /\ At("eval_primary_expr", "p_start")
    /\ current_token = "NUMBER"
    /\ Len(stack) < MaxStack
    /\ stack' = Append(SetTop([Top EXCEPT !.result = number_val,
                                          !.pc = "p_ret"]),
                       Frame("get_token", "gt_start"))
    /\ UNCHANGED <<src_chars, current_index, current_token, number_val,
                   overflow_checks, ret, status, output, run, first>>

\* SUB: the '-' is consumed.
Primary_Minus ==
    /\ At("eval_primary_expr", "p_start")
    /\ current_token = "SUB"
    /\ Call("p_neg", Frame("get_token", "gt_start"))
    /\ UNCHANGED <<src_chars, current_index, current_token, number_val,
                   overflow_checks, ret, status, output, run, first>>

\* '-' NUMBER: the negated value is taken, the number consumed.
Primary_NegNumber ==
    /\ At("eval_primary_expr", "p_neg")
    /\ current_token = "NUMBER"
    /\ IF overflow_checks /\ ~InRange(-number_val)
       THEN /\ status' = "overflow_panic"
            /\ UNCHANGED stack
       ELSE /\ Len(stack) < MaxStack
            /\ stack' = Append(SetTop([Top EXCEPT !.result = Wrap(-number_val),
                                                  !.pc = "p_ret"]),
                               Frame("get_token", "gt_start"))
            /\ UNCHANGED status
    /\ UNCHANGED <<src_chars, current_index, current_token, number_val,
                   overflow_checks, ret, output, run, first>>

\* '-' '(': eval_primary_expr is called on the parenthesis.
Primary_NegParen ==
    /\ At("eval_primary_expr", "p_neg")
    /\ current_token # "NUMBER"
    /\ UnaryRecurses(current_token)
    /\ Call("p_negate", Frame("eval_primary_expr", "p_start"))
    /\ UNCHANGED <<src_chars, current_index, current_token, number_val,
                   overflow_checks, ret, status, output, run, first>>

\* '-' followed by anything else.
Primary_NegError ==
    /\ At("eval_primary_expr", "p_neg")
    /\ current_token # "NUMBER"
    /\ ~UnaryRecurses(current_token)
    /\ Error("unary_operand")

\* -val of the parenthesised primary is returned.
Primary_Negate ==
    /\ At("eval_primary_expr", "p_negate")
    /\ IF overflow_checks /\ ~InRange(-ret)
       THEN /\ status' = "overflow_panic"
            /\ UNCHANGED <<stack, ret>>
       ELSE /\ Return(Wrap(-ret))
            /\ UNCHANGED status
    /\ UNCHANGED <<src_chars, current_index, current_token, number_val,
                   overflow_checks, output, run, first>>

\* LEFTPAREN: the '(' is consumed.
Primary_LeftParen ==
    /\ At("eval_primary_expr", "p_start")
    /\ current_token = "LEFTPAREN"
    /\ Call("p_inner", Frame("get_token", "gt_start"))
    /\ UNCHANGED <<src_chars, current_index, current_token, number_val,
                   overflow_checks, ret, status, output, run, first>>

\* let val = self.eval_expr(): the call
Primary_Inner ==
    /\ At("eval_primary_expr", "p_inner")
    /\ Call("p_close", Frame("eval_expr", "e_call"))
    /\ UNCHANGED <<src_chars, current_index, current_token, number_val,
                   overflow_checks, ret, status, output, run, first>>

\* The ')' test; the ')' is consumed.
Primary_Close ==
    /\ At("eval_primary_expr", "p_close")
    /\ IF ParenClosed(current_token)
       THEN /\ Len(stack) < MaxStack
            /\ stack' = Append(SetTop([Top EXCEPT !.result = ret,
                                                  !.pc = "p_ret"]),
                               Frame("get_token", "gt_start"))
            /\ UNCHANGED status
       ELSE /\ status' = "missing_paren"
            /\ UNCHANGED stack
    /\ UNCHANGED <<src_chars, current_index, current_token, number_val,
                   overflow_checks, ret, output, run, first>>

\* Any other token cannot start a primary expression.
Primary_Illegal ==
    /\ At("eval_primary_expr", "p_start")
    /\ current_token \notin {"NUMBER", "SUB", "LEFTPAREN"}
    /\ Error("illegal_primary")

\* The value of the primary is returned.
Primary_Return ==
    /\ At("eval_primary_expr", "p_ret")
    /\ Return(Top.result)
    /\ UNCHANGED <<src_chars, current_index, current_token, number_val,
                   overflow_checks, status, output, run, first>>

eval_primary_expr ==
    \/ Primary_Number
    \/ Primary_Minus
    \/ Primary_NegNumber
    \/ Primary_NegParen
    \/ Primary_NegError
    \/ Primary_Negate
    \/ Primary_LeftParen
    \/ Primary_Inner
    \/ Primary_Close
    \/ Primary_Illegal
    \/ Primary_Return

\* ---------------------------------------------------------- specification

Next ==
    \/ get_token
    \/ main
    \/ eval_expr
    \/ eval_add_sub_expr
    \/ eval_mul_div_expr
    \/ eval_primary_expr

Spec == Init /\ [][Next]_vars

Halted == status # "running"

\* The program runs to its exit: it is one thread that never waits.
FairSpec == Spec /\ WF_vars(Next)

\* ------------------------------------------------------- a second run

WsAlphabet == {"1", "2", "+", "-", "/", "(", " ", "x"}
\* Every input line over WsAlphabet up to this length is run twice.
MaxWsLen == 3

WsLines == Strings(WsAlphabet, MaxWsLen) \cup Examples

InitWs ==
    /\ \E line \in WsLines : new(line)
    /\ overflow_checks \in BOOLEAN
    /\ stack = <<[fn |-> "main", pc |-> "m_get_token", result |-> 0,
                  op_token |-> "UNKNOWN", temp_val |-> 0, start_index |-> 0,
                  entry |-> 0]>>
    /\ ret = 0
    /\ status = "running"
    /\ output = 0
    /\ run = 1
    /\ first = [status |-> "running", output |-> 0, src |-> <<>>]

\* s with the character w put after its first p characters.
InsertAt(s, p, w) == SubSeq(s, 1, p) \o <<w>> \o SubSeq(s, p + 1, Len(s))

\* Position p of s lies between two digits of one digit run.
InsideDigitRun(s, p) ==
    /\ 1 <= p /\ p < Len(s)
    /\ s[p] \in {"0", "1", "2", "3", "4", "5", "6", "7", "8", "9"}
    /\ s[p + 1] \in {"0", "1", "2", "3", "4", "5", "6", "7", "8", "9"}

\* The program of the same build is started again on the line of run 1 with
\* one more whitespace character before, after or between its tokens.
Respace ==
    /\ Halted
    /\ run = 1
    /\ \E p \in 0..Len(src_chars), w \in {" ", "\t"} :
          /\ ~InsideDigitRun(src_chars, p)
          /\ src_chars' = trim(InsertAt(src_chars, p, w))
    /\ current_index' = 0
    /\ current_token' = "UNKNOWN"
    /\ number_val' = 0
    /\ stack' = <<[fn |-> "main", pc |-> "m_get_token", result |-> 0,
                   op_token |-> "UNKNOWN", temp_val |-> 0, start_index |-> 0,
                   entry |-> 0]>>
    /\ ret' = 0
    /\ status' = "running"
    /\ output' = 0
    /\ run' = 2
    /\ first' = [status |-> status, output |-> output, src |-> src_chars]
    /\ UNCHANGED overflow_checks

NextWs == Next \/ Respace

SpecWs == InitWs /\ [][NextWs]_vars

\* ========================================================================
\* What follows states the claims.  The reference lexer, grammar and
\* evaluator are the notions the claims compare the program with; they use
\* none of the operators of the program above except the integer range.
\* ========================================================================

\* ------------------------------------------------ reference: the lexemes

RefDigits == {"0", "1", "2", "3", "4", "5", "6", "7", "8", "9"}
RefBlanks == {" ", "\t"}
RefOperators == {"+", "-", "*", "/", "(", ")"}

\* The digit c as a number.
RefDigit(c) ==
    CASE c = "0" -> 0 [] c = "1" -> 1 [] c = "2" -> 2 [] c = "3" -> 3
      [] c = "4" -> 4 [] c = "5" -> 5 [] c = "6" -> 6 [] c = "7" -> 7
      [] c = "8" -> 8 [] c = "9" -> 9

\* A digit string read as a base-10 integer: units last.
RECURSIVE RefDecimal(_)
RefDecimal(d) ==
    IF d = <<>> THEN 0
    ELSE RefDigit(d[Len(d)]) + 10 * RefDecimal(SubSeq(d, 1, Len(d) - 1))

\* The first position (0-based) at or after i of s that holds no blank.
RECURSIVE RefSkipBlanks(_, _)
RefSkipBlanks(s, i) ==
    IF i < Len(s) /\ s[i + 1] \in RefBlanks THEN RefSkipBlanks(s, i + 1) ELSE i

\* The position (0-based) just past the maximal digit run of s that starts at i.
RECURSIVE RefRunEnd(_, _)
RefRunEnd(s, i) ==
    IF i < Len(s) /\ s[i + 1] \in RefDigits THEN RefRunEnd(s, i + 1) ELSE i

\* The lexemes of s from position i on: a number with its value, an operator
\* or parenthesis, or "?" for a character that starts no token.
RECURSIVE RefLex(_, _)
RefLex(s, i) ==
    LET b == RefSkipBlanks(s, i) IN
    IF b >= Len(s) THEN <<>>
    ELSE IF s[b + 1] \in RefDigits
    THEN LET e == RefRunEnd(s, b) IN
         <<[t |-> "NUMBER", v |-> RefDecimal(SubSeq(s, b + 1, e))]>>
             \o RefLex(s, e)
    ELSE IF s[b + 1] \in RefOperators
    THEN <<[t |-> s[b + 1], v |-> 0]>> \o RefLex(s, b + 1)
    ELSE <<[t |-> "?", v |-> 0]>> \o RefLex(s, b + 1)

RefTokens(s) == RefLex(s, 0)

Lexable(t) == \A i \in 1..Len(t) : t[i].t # "?"

\* ------------------------------------------------ reference: the grammar
\*
\*   Expr        ::= AddSubExpr
\*   AddSubExpr  ::= MulDivExpr { ('+'|'-') MulDivExpr }
\*   MulDivExpr  ::= PrimaryExpr { ('*'|'/') PrimaryExpr }
\*   PrimaryExpr ::= NUMBER | '-' PrimaryExpr | '(' Expr ')'         g = "any"
\*   PrimaryExpr ::= NUMBER | '-' NUMBER | '-' '(' Expr ')' | '(' Expr ')'
\*                                                                   g = "one"
\*
\* Is*(t, i, j, g): the tokens t[i..j] are derivable from the nonterminal.

RECURSIVE IsPrimary(_, _, _, _), IsMulDiv(_, _, _, _), IsAddSub(_, _, _, _)

IsPrimary(t, i, j, g) ==
    /\ i <= j
    /\ \/ i = j /\ t[i].t = "NUMBER"
       \/ /\ i < j
          /\ t[i].t = "-"
          /\ g = "any" \/ t[i + 1].t \in {"NUMBER", "("}
          /\ IsPrimary(t, i + 1, j, g)
       \/ /\ i < j
          /\ t[i].t = "("
          /\ t[j].t = ")"
          /\ IsAddSub(t, i + 1, j - 1, g)

IsMulDiv(t, i, j, g) ==
    \/ IsPrimary(t, i, j, g)
    \/ \E k \in (i + 1)..(j - 1) :
          /\ t[k].t \in {"*", "/"}
          /\ IsPrimary(t, k + 1, j, g)
          /\ IsMulDiv(t, i, k - 1, g)

IsAddSub(t, i, j, g) ==
    \/ IsMulDiv(t, i, j, g)
    \/ \E k \in (i + 1)..(j - 1) :
          /\ t[k].t \in {"+", "-"}
          /\ IsMulDiv(t, k + 1, j, g)
          /\ IsAddSub(t, i, k - 1, g)

Derivable(t, g) == Lexable(t) /\ IsAddSub(t, 1, Len(t), g)

\* ------------------------------------------------- reference: the value
\*
\* A value is [ok, v]: ok is FALSE once a literal or an intermediate value
\* lies outside the integer range, or a divisor is zero.

\* The quotient of a by b # 0 rounded toward zero: a = q * b + r with
\* |r| < |b| and r zero or of the sign of a.
RefQuotient(a, b) ==
    CHOOSE q \in (-Abs(a))..Abs(a) :
        \E r \in (1 - Abs(b))..(Abs(b) - 1) :
            /\ a = q * b + r
            /\ r = 0 \/ (r < 0) = (a < 0)

RefLiteral(v) == [ok |-> v <= IntMax, v |-> v]

RefNegate(a) == [ok |-> a.ok /\ InRange(-a.v), v |-> -a.v]

RefBinary(op, a, b) ==
    IF op = "/" /\ b.v = 0 THEN [ok |-> FALSE, v |-> 0]
    ELSE LET v == CASE op = "+" -> a.v + b.v
                    [] op = "-" -> a.v - b.v
                    [] op = "*" -> a.v * b.v
                    [] op = "/" -> RefQuotient(a.v, b.v)
         IN [ok |-> a.ok /\ b.ok /\ InRange(v), v |-> v]

RECURSIVE RefPrimary(_, _, _), RefMulDiv(_, _, _), RefAddSub(_, _, _)

RefPrimary(t, i, j) ==
    IF i = j THEN RefLiteral(t[i].v)
    ELSE IF t[i].t = "-" THEN RefNegate(RefPrimary(t, i + 1, j))
    ELSE RefAddSub(t, i + 1, j - 1)

\* Operators of one precedence fold left to right: the split is at the last.
RefMulDiv(t, i, j) ==
    IF IsPrimary(t, i, j, "any") THEN RefPrimary(t, i, j)
    ELSE LET k == CHOOSE k \in (i + 1)..(j - 1) :
                      /\ t[k].t \in {"*", "/"}
                      /\ IsPrimary(t, k + 1, j, "any")
                      /\ IsMulDiv(t, i, k - 1, "any")
         IN RefBinary(t[k].t, RefMulDiv(t, i, k - 1), RefPrimary(t, k + 1, j))

RefAddSub(t, i, j) ==
    IF IsMulDiv(t, i, j, "any") THEN RefMulDiv(t, i, j)
    ELSE LET k == CHOOSE k \in (i + 1)..(j - 1) :
                      /\ t[k].t \in {"+", "-"}
                      /\ IsMulDiv(t, k + 1, j, "any")
                      /\ IsAddSub(t, i, k - 1, "any")
         IN RefBinary(t[k].t, RefAddSub(t, i, k - 1), RefMulDiv(t, k + 1, j))

RefValue(t) == RefAddSub(t, 1, Len(t))

\* t is a valid expression: derivable, and evaluated without a zero divisor
\* or a value outside the integer range.
Valid(t, g) == Derivable(t, g) /\ RefValue(t).ok

SyntaxErrors == {"unknown_token", "unary_operand", "missing_paren",
                 "illegal_primary", "trailing_characters"}

ArithmeticErrors == {"division_by_zero", "overflow_panic",
                     "divide_overflow_panic"}

\* ------------------------------------------------------------------ claims

ZeroDivisorIsAnError ==
    /\ [](At("eval_mul_div_expr", "md_div") => Top.temp_val # 0)
    /\ [](status # "divide_by_zero_panic")
    /\ [][/\ At("eval_mul_div_expr", "md_fold") /\ Top.op_token = "DIV"
                 /\ ret = 0
              => status' = "division_by_zero" /\ output' = output
          /\ status = "division_by_zero" => status' = "division_by_zero"]_vars

\* "5/0" has ended with the division-by-zero error.
ZeroDivisorRejected ==
    /\ status = "division_by_zero"
    /\ src_chars = <<"5", "/", "0">>
    /\ Top.fn = "eval_mul_div_expr" /\ Top.result = 5 /\ ret = 0

\* C3, as stated: a result is emitted only for token sequences derivable
\* from Expr with PrimaryExpr ::= NUMBER | '-' PrimaryExpr | '(' Expr ')',
\* and no derivable sequence ends with a syntax error.
AcceptsStatedGrammar ==
    Halted =>
        LET t == RefTokens(src_chars) IN
        /\ status = "result" => Derivable(t, "any")
        /\ Derivable(t, "any") => status \notin SyntaxErrors

\* C3, amended: the same for the grammar whose unary minus applies to a
\* NUMBER or to a parenthesised expression only,
\* PrimaryExpr ::= NUMBER | '-' NUMBER | '-' '(' Expr ')' | '(' Expr ')';
\* a '-' followed by any other token is the unary-operand error, unless an
\* arithmetic error ends the run before that '-' is read.
AcceptsOneMinusGrammar ==
    Halted =>
        LET t == RefTokens(src_chars) IN
        /\ status = "result" => Derivable(t, "one")
        /\ Derivable(t, "one") => status \notin SyntaxErrors
        /\ Derivable(t, "any") /\ ~Derivable(t, "one")
              => status \in {"unary_operand"} \cup ArithmeticErrors

\* "-(-5)" has been evaluated to 5.
NestedMinusAccepted ==
    /\ status = "result"
    /\ src_chars = <<"-", "(", "-", "5", ")">>
    /\ output = 5

\* C4: a result is emitted only with the END token current, the index at
\* the end of the input and every call returned; when eval_expr has returned
\* to main with any other token current, the run ends with the
\* trailing-input error.
ResultOnlyAtEnd ==
    /\ [](status = "result" =>
             /\ current_token = "END"
             /\ current_index = Len(src_chars)
             /\ Len(stack) = 1 /\ Top.fn = "main")
    /\ [][At("main", "m_check") /\ current_token # "END"
             => status' = "trailing_characters" /\ output' = output]_vars

\* "1 2" has ended with the trailing-input error.
TrailingInputRejected ==
    /\ status = "trailing_characters"
    /\ src_chars = <<"1", " ", "2">>
    /\ current_token = "NUMBER"

\* C5: a whitespace character put before the first token, after the last
\* or between two tokens (never inside a digit run) leaves the outcome as it
\* was: the same error, or the same integer result.
WhitespaceInsensitive ==
    run = 2 /\ Halted =>
        /\ status = first.status
        /\ status = "result" => output = first.output

\* "1+2" and then "1 \t+2" have both been evaluated to 3.
RespacedSumEvaluated ==
    /\ run = 2
    /\ first.src = <<"1", "+", "2">>
    /\ src_chars = <<"1", "\t", "+", "2">>
    /\ status = "result" /\ output = 3 /\ first.output = 3

\* C6, as stated: no step, those inside get_token included, decreases the
\* index, and the index never exceeds the input length.
IndexNeverDecreases ==
    [][current_index' >= current_index
       /\ current_index' <= Len(src_chars)]_vars

\* C6, amended: the index never exceeds the input length, and the one step
\* that decreases it is the reset of the NUMBER branch, which puts it back
\* on start_index, the first digit of the lexeme; the index is never below
\* the one get_token was called with, so every get_token returns with an
\* index no smaller than it found.
IndexDecreasesOnlyAtReset ==
    [][/\ current_index' <= Len(src_chars)
       /\ current_index' < current_index =>
             /\ At("get_token", "gt_digits")
             /\ current_index' = Top.start_index
             /\ current_token' = "NUMBER"
       /\ Top.fn = "get_token" => current_index' >= Top.entry]_vars

\* The index has been reset to the start of a number that is not the first
\* token.
IndexWasReset ==
    /\ At("get_token", "gt_advance")
    /\ current_token = "NUMBER"
    /\ current_index = Top.start_index
    /\ Top.start_index > 0

\* get_token is about to return a NUMBER token.
ReturnsNumber ==
    /\ At("get_token", "gt_advance")
    /\ current_token = "NUMBER"
    /\ ~(HasChar /\ is_digit(CurChar))

\* C7, as stated: get_token returns a NUMBER with number_val the value of
\* the maximal digit run at the first non-blank position, read in base 10,
\* and the index just past the run.
NumberIsDigitRunValue ==
    ReturnsNumber =>
        LET b == RefSkipBlanks(src_chars, Top.entry)
            e == RefRunEnd(src_chars, b)
        IN /\ current_index = e
           /\ number_val = RefDecimal(SubSeq(src_chars, b + 1, e))

\* C7, amended: the same when the value of the run is within the integer
\* range; a run of a larger value is returned only by a build without
\* overflow checks, with number_val the value wrapped to the integer width
\* (a build with overflow checks panics in the digit loop).
NumberIsDigitRunValueInRange ==
    ReturnsNumber =>
        LET b == RefSkipBlanks(src_chars, Top.entry)
            e == RefRunEnd(src_chars, b)
            v == RefDecimal(SubSeq(src_chars, b + 1, e))
        IN /\ current_index = e
           /\ e > b
           /\ v <= IntMax => number_val = v
           /\ v > IntMax => ~overflow_checks /\ number_val = Wrap(v)

\* The number "007" has been read as 7.
LeadingZerosRead ==
    /\ ReturnsNumber
    /\ src_chars = <<"0", "0", "7">>
    /\ number_val = 7
    /\ current_index = 3

\* C8: with no earlier overflow (a build with overflow checks is still
\* running), the operands that reach the '/' fold either have a zero
\* divisor or a quotient within the integer range.
DivisionNeverTraps ==
    /\ overflow_checks
    /\ At("eval_mul_div_expr", "md_fold")
    /\ Top.op_token = "DIV"
    => ret = 0 \/ InRange(RefQuotient(Top.result, ret))

\* s followed by n closing parentheses.
RECURSIVE Closed(_, _)
Closed(t, n) ==
    IF n = 0 THEN t ELSE Append(Closed(t, n - 1), [t |-> ")", v |-> 0])

\* The only defect of t is one or more unmatched open parentheses.
OnlyUnclosed(t, g) ==
    /\ ~Derivable(t, g)
    /\ \E n \in 1..Len(t) : Valid(Closed(t, n), g)

\* C9, as stated: an input whose only defect is unmatched open parentheses,
\* in the grammar of the specification, ends with the
\* missing-closing-parenthesis error.
UnclosedIsMissingParen ==
    Halted /\ OnlyUnclosed(RefTokens(src_chars), "any")
        => status = "missing_paren"

\* C9, amended: the same in the grammar the evaluator accepts, whose unary
\* minus applies to a NUMBER or a parenthesised expression only.
UnclosedIsMissingParenOneMinus ==
    Halted /\ OnlyUnclosed(RefTokens(src_chars), "one")
        => status = "missing_paren"

\* "((1+2" has ended with the missing-closing-parenthesis error.
TwoUnclosedRejected ==
    /\ status = "missing_paren"
    /\ src_chars = <<"(", "(", "1", "+", "2">>
    /\ current_token = "END"

\* The number of characters c in s.
Count(s, c) == Cardinality({i \in 1..Len(s) : s[i] = c})

\* The activations of fn on the stack.
Activations(fn) == {i \in 1..Len(stack) : stack[i].fn = fn}

GrammarFunctions == {"eval_expr", "eval_add_sub_expr", "eval_mul_div_expr",
                     "eval_primary_expr"}

\* The activations of eval_primary_expr are at most one more than the '('
\* and '-' of the input, those of each other grammar function at most one
\* more than the '('.
DepthBounded ==
    /\ Cardinality(Activations("eval_primary_expr"))
          <= 1 + Count(src_chars, "(") + Count(src_chars, "-")
    /\ \A fn \in GrammarFunctions \ {"eval_primary_expr"} :
          Cardinality(Activations(fn)) <= 1 + Count(src_chars, "(")

\* get_token returns to its caller.
GetTokenReturns == Top.fn = "get_token" /\ Len(stack') < Len(stack)

\* The get_token calls that open a loop iteration (the operator has been
\* recorded) or come before a recursive call (after '(' and unary '-').
BeforeIterationOrRecursion ==
    stack[Len(stack) - 1].pc \in {"as_rhs", "md_rhs", "p_inner", "p_neg"}

\* C10, as stated: every run reaches the result or an error, the recursion
\* depth is bounded by the '(' and '-' of the input, and every get_token
\* that comes before a loop iteration or a recursive call returns with the
\* index strictly advanced.
TerminatesEveryTokenAdvances ==
    /\ <>Halted
    /\ []DepthBounded
    /\ [][GetTokenReturns /\ BeforeIterationOrRecursion
             => current_index' > Top.entry]_vars

\* C10, amended: the same, except that a get_token at the end of the input
\* yields END and leaves the index where it was (the grammar function then
\* called ends the run with the illegal-primary or unary-operand error);
\* every other get_token returns with the index strictly advanced.
TerminatesTokenAdvancesOrEnd ==
    /\ <>Halted
    /\ []DepthBounded
    /\ [][GetTokenReturns
             => \/ current_index' > Top.entry
                \/ current_token' = "END" /\ current_index' = Len(src_chars)]_vars

\* "-(-(-(1)))" has been evaluated to -1.
NestedRunHalted ==
    /\ status = "result"
    /\ src_chars = <<"-", "(", "-", "(", "-", "(", "1", ")", ")", ")">>
    /\ output = -1

====
